---------------------------- MODULE Spec2Model ----------------------------
(* HTTP Basic authentication pipeline of api/v1/auth/basic_auth.py          *)
(* (class BasicAuth): extract -> decode -> split -> resolve, and             *)
(* current_user, which runs the stages in sequence.                          *)
(*                                                                           *)
(* A Python string is a sequence of code points (naturals); a Python value   *)
(* is a tagged record, so that None, a non-string object, a string, a User   *)
(* and a request can be compared with one another.                           *)
EXTENDS Naturals, Integers, Sequences, FiniteSets, TLC

VARIABLES
    db,        \* the user store: its rows in storage order, and whether search raises
    pc,        \* per call of current_user: the stage the call is at
    request,   \* per call: the request argument
    header,    \* per call: local base64_authorization_header
    encoded,   \* per call: local encoded_base64
    decoded,   \* per call: local decoded_base64
    creds,     \* per call: locals (user_email, user_pwd)
    users,     \* per call: the list User.search returned
    idx,       \* per call: position of the for loop over users
    result,    \* per call: the value returned
    outcome,   \* per call: "running", "returned" or "raised"
    log,       \* per call: the stages run so far, in order
    checks,    \* per call: the is_valid_password calls made, in order
    fin,       \* input of the function under test (function specifications)
    fout,      \* its output
    fop        \* which function has been applied

callVars == <<pc, request, header, encoded, decoded, creds, users, idx,
              result, outcome, log, checks>>
funVars == <<fin, fout, fop>>
vars == <<db, pc, request, header, encoded, decoded, creds, users, idx,
          result, outcome, log, checks, fin, fout, fop>>

----------------------------------------------------------------------------
(* Python values *)

None == [tag |-> "none", val |-> <<>>]
Obj == [tag |-> "obj", val |-> <<>>]          \* an object that is no str
Str(s) == [tag |-> "str", val |-> s]
Bytes(b) == [tag |-> "bytes", val |-> b]
UserObj(u) == [tag |-> "user", val |-> <<u>>]
Req(h) == [tag |-> "req", val |-> <<h>>]      \* a request whose Authorization header is h
Raised == [tag |-> "raised", val |-> <<>>]    \* the call ended by an exception
isinstance_str(v) == v.tag = "str"

----------------------------------------------------------------------------
(* Bounds *)

NumCalls == 2       \* concurrent calls of current_user
MaxRows == 2        \* rows of the user store
MaxTextLen == 4     \* length of a decoded text given to extract_user_credentials
MaxTokenLen == 4    \* length of a token given to decode_base64_authorization_header
MaxTailLen == 2     \* length of what follows the scheme word of a header
MaxCredLen == 2     \* length of a username or a password of the round trip

RECURSIVE SeqsUpTo(_, _)
SeqsUpTo(S, n) ==
    IF n = 0 THEN {<<>>}
    ELSE LET shorter == SeqsUpTo(S, n - 1)
         IN  shorter \cup {Append(s, x) : s \in {t \in shorter : Len(t) = n - 1}, x \in S}

----------------------------------------------------------------------------
(* Stage 1: extract_base64_authorization_header *)

BasicPrefix == <<66, 97, 115, 105, 99, 32>>      \* 'Basic '
PrefixLen == 6

startswith(s, p) == Len(s) >= Len(p) /\ SubSeq(s, 1, Len(p)) = p

\* faulty variant: the scheme word compared without regard to case
extract_base64_authorization_header_nocase(authorization_header) ==
    IF authorization_header = None THEN None
    ELSE IF ~isinstance_str(authorization_header) THEN None
    ELSE LET s == authorization_header.val
             lower == [i \in 1..Len(s) |-> IF s[i] >= 65 /\ s[i] <= 90 THEN s[i] + 32 ELSE s[i]]
         IN  IF ~startswith(lower, <<98, 97, 115, 105, 99, 32>>) THEN None
             ELSE Str(SubSeq(s, PrefixLen + 1, Len(s)))

extract_base64_authorization_header(authorization_header) ==
    IF authorization_header = None THEN None
    ELSE IF ~isinstance_str(authorization_header) THEN None
    ELSE IF ~startswith(authorization_header.val, BasicPrefix) THEN None
    ELSE Str(SubSeq(authorization_header.val, PrefixLen + 1,
                    Len(authorization_header.val)))

----------------------------------------------------------------------------
(* Stage 2: decode_base64_authorization_header                               *)
(* base64.b64decode(s) with its default validate=False: a str argument is    *)
(* encoded as ASCII (a non-ASCII character raises ValueError), then          *)
(* binascii.a2b_base64 runs in its non-strict mode: characters outside the   *)
(* alphabet are skipped, a complete pad sequence ends the parse, and a       *)
(* quad left open at the end of the input raises binascii.Error.             *)

Pad == 61
AsciiMax == 127

B64Val(ch) ==
    IF ch >= 65 /\ ch <= 90 THEN ch - 65
    ELSE IF ch >= 97 /\ ch <= 122 THEN ch - 97 + 26
    ELSE IF ch >= 48 /\ ch <= 57 THEN ch - 48 + 52
    ELSE IF ch = 43 THEN 62
    ELSE IF ch = 47 THEN 63
    ELSE -1

RECURSIVE a2b_base64(_, _, _, _, _, _)
a2b_base64(s, i, quad_pos, leftchar, pads, out) ==
    IF i > Len(s)
    THEN IF quad_pos # 0 THEN Raised ELSE Bytes(out)
    ELSE IF s[i] = Pad
    THEN IF quad_pos >= 2 /\ quad_pos + pads + 1 >= 4
         THEN Bytes(out)
         ELSE a2b_base64(s, i + 1, quad_pos, leftchar,
                         IF quad_pos >= 2 THEN pads + 1 ELSE pads, out)
    ELSE IF B64Val(s[i]) < 0
    THEN a2b_base64(s, i + 1, quad_pos, leftchar, pads, out)
    ELSE LET v == B64Val(s[i])
         IN  CASE quad_pos = 0 -> a2b_base64(s, i + 1, 1, v, 0, out)
               [] quad_pos = 1 ->
                    a2b_base64(s, i + 1, 2, v % 16,
                               0, Append(out, (leftchar * 4) + (v \div 16)))
               [] quad_pos = 2 ->
                    a2b_base64(s, i + 1, 3, v % 4,
                               0, Append(out, (leftchar * 16) + (v \div 4)))
               [] OTHER ->
                    a2b_base64(s, i + 1, 0, 0,
                               0, Append(out, leftchar * 64 + v))

b64decode(s) ==
    IF \E i \in 1..Len(s) : s[i] > AsciiMax THEN Raised
    ELSE a2b_base64(s, 1, 0, 0, 0, <<>>)

(* bytes.decode('utf-8'), strict: the well-formed sequences of the Unicode   *)
(* standard (no overlong form, no surrogate, nothing above U+10FFFF).        *)
IsCont(b) == b >= 128 /\ b <= 191

RECURSIVE utf8_decode(_, _, _)
utf8_decode(b, i, out) ==
    IF i > Len(b) THEN Str(out)
    ELSE LET b0 == b[i]
             n == Len(b) - i + 1
         IN  IF b0 < 128 THEN utf8_decode(b, i + 1, Append(out, b0))
             ELSE IF b0 >= 194 /\ b0 <= 223
             THEN IF n >= 2 /\ IsCont(b[i + 1])
                  THEN utf8_decode(b, i + 2,
                           Append(out, (b0 - 192) * 64 + (b[i + 1] - 128)))
                  ELSE Raised
             ELSE IF b0 >= 224 /\ b0 <= 239
             THEN IF /\ n >= 3
                     /\ IsCont(b[i + 1])
                     /\ IsCont(b[i + 2])
                     /\ (b0 = 224 => b[i + 1] >= 160)
                     /\ (b0 = 237 => b[i + 1] <= 159)
                  THEN utf8_decode(b, i + 3,
                           Append(out, (b0 - 224) * 4096 + (b[i + 1] - 128) * 64
                                       + (b[i + 2] - 128)))
                  ELSE Raised
             ELSE IF b0 >= 240 /\ b0 <= 244
             THEN IF /\ n >= 4
                     /\ IsCont(b[i + 1])
                     /\ IsCont(b[i + 2])
                     /\ IsCont(b[i + 3])
                     /\ (b0 = 240 => b[i + 1] >= 144)
                     /\ (b0 = 244 => b[i + 1] <= 143)
                  THEN utf8_decode(b, i + 4,
                           Append(out, (b0 - 240) * 262144 + (b[i + 1] - 128) * 4096
                                       + (b[i + 2] - 128) * 64 + (b[i + 3] - 128)))
                  ELSE Raised
             ELSE Raised

\* faulty variant: lines 56-61 without the try/except
decode_base64_authorization_header_no_try(base64_authorization_header) ==
    IF base64_authorization_header = None THEN None
    ELSE IF ~isinstance_str(base64_authorization_header) THEN None
    ELSE LET decoded_bytes == b64decode(base64_authorization_header.val)
         IN  IF decoded_bytes = Raised THEN Raised
             ELSE utf8_decode(decoded_bytes.val, 1, <<>>)

\* faulty variant: decoded_bytes.decode('ascii')
decode_base64_authorization_header_ascii(base64_authorization_header) ==
    IF base64_authorization_header = None THEN None
    ELSE IF ~isinstance_str(base64_authorization_header) THEN None
    ELSE LET decoded_bytes == b64decode(base64_authorization_header.val)
         IN  IF decoded_bytes = Raised THEN None
             ELSE IF \E i \in 1..Len(decoded_bytes.val) : decoded_bytes.val[i] > AsciiMax
             THEN None
             ELSE Str(decoded_bytes.val)

decode_base64_authorization_header(base64_authorization_header) ==
    IF base64_authorization_header = None THEN None
    ELSE IF ~isinstance_str(base64_authorization_header) THEN None
    ELSE LET decoded_bytes == b64decode(base64_authorization_header.val)
         IN  IF decoded_bytes = Raised THEN None
             ELSE LET decoded_str == utf8_decode(decoded_bytes.val, 1, <<>>)
                  IN  IF decoded_str = Raised THEN None ELSE decoded_str

----------------------------------------------------------------------------
(* Stage 3: extract_user_credentials *)

Colon == 58

FirstIndex(s, ch) == CHOOSE i \in 1..Len(s) : s[i] = ch /\ \A j \in 1..(i - 1) : s[j] # ch
LastIndex(s, ch) == CHOOSE i \in 1..Len(s) : s[i] = ch /\ \A j \in (i + 1)..Len(s) : s[j] # ch

\* str.split(sep, 1) of a string that contains sep
split_1(s, ch) ==
    <<Str(SubSeq(s, 1, FirstIndex(s, ch) - 1)),
      Str(SubSeq(s, FirstIndex(s, ch) + 1, Len(s)))>>

\* faulty variant: rsplit(':', 1), the split on the last colon
extract_user_credentials_rsplit(decoded_base64_authorization_header) ==
    IF decoded_base64_authorization_header = None THEN <<None, None>>
    ELSE IF ~isinstance_str(decoded_base64_authorization_header) THEN <<None, None>>
    ELSE LET s == decoded_base64_authorization_header.val
         IN  IF ~(\E i \in 1..Len(s) : s[i] = Colon) THEN <<None, None>>
             ELSE <<Str(SubSeq(s, 1, LastIndex(s, Colon) - 1)),
                    Str(SubSeq(s, LastIndex(s, Colon) + 1, Len(s)))>>

extract_user_credentials(decoded_base64_authorization_header) ==
    IF decoded_base64_authorization_header = None THEN <<None, None>>
    ELSE IF ~isinstance_str(decoded_base64_authorization_header) THEN <<None, None>>
    ELSE IF ~(\E i \in 1..Len(decoded_base64_authorization_header.val) :
                 decoded_base64_authorization_header.val[i] = Colon)
    THEN <<None, None>>
    ELSE split_1(decoded_base64_authorization_header.val, Colon)

----------------------------------------------------------------------------
(* Building a credential header, as a client does:                           *)
(* "Basic " + base64(utf8(user + ":" + password)).                           *)

B64Char(v) ==
    IF v < 26 THEN 65 + v
    ELSE IF v < 52 THEN 97 + (v - 26)
    ELSE IF v < 62 THEN 48 + (v - 52)
    ELSE IF v = 62 THEN 43
    ELSE 47

RECURSIVE b64encode(_, _)
b64encode(b, i) ==
    LET n == Len(b) - i + 1
    IN  IF n <= 0 THEN <<>>
        ELSE IF n = 1
        THEN <<B64Char(b[i] \div 4), B64Char((b[i] % 4) * 16), Pad, Pad>>
        ELSE IF n = 2
        THEN <<B64Char(b[i] \div 4),
               B64Char(((b[i] % 4) * 16) + (b[i + 1] \div 16)),
               B64Char((b[i + 1] % 16) * 4), Pad>>
        ELSE <<B64Char(b[i] \div 4),
               B64Char(((b[i] % 4) * 16) + (b[i + 1] \div 16)),
               B64Char(((b[i + 1] % 16) * 4) + (b[i + 2] \div 64)),
               B64Char(b[i + 2] % 64)>> \o b64encode(b, i + 3)

RECURSIVE utf8_encode(_, _)
utf8_encode(t, i) ==
    IF i > Len(t) THEN <<>>
    ELSE LET cp == t[i]
             head == IF cp < 128 THEN <<cp>>
                     ELSE IF cp < 2048 THEN <<192 + (cp \div 64), 128 + (cp % 64)>>
                     ELSE IF cp < 65536
                     THEN <<224 + (cp \div 4096), 128 + ((cp \div 64) % 64),
                            128 + (cp % 64)>>
                     ELSE <<240 + (cp \div 262144), 128 + ((cp \div 4096) % 64),
                            128 + ((cp \div 64) % 64), 128 + (cp % 64)>>
         IN  head \o utf8_encode(t, i + 1)

BasicHeader(text) == Str(BasicPrefix \o b64encode(utf8_encode(text, 1), 1))

----------------------------------------------------------------------------
(* The user store (models.user.User): rows in storage order; a User object   *)
(* is named by the position of its row.                                      *)

EmailB == <<98>>                 \* "b"
EmailA == <<97>>                 \* "a"
EmailX == <<120>>                \* "x", never stored
PwdS == <<115>>                  \* "s"
PwdSW == <<115, 58, 119>>        \* "s:w"
PwdW == <<119>>                  \* "w", never stored

Rows == [email : {EmailB, EmailA}, password : {PwdS, PwdSW}]
Stores == [rows : SeqsUpTo(Rows, MaxRows), down : BOOLEAN]

\* User.search({'email': email}): the matching rows in storage order, or an exception
RECURSIVE matching(_, _, _)
matching(rows, i, email) ==
    IF i > Len(rows) THEN <<>>
    ELSE (IF rows[i].email = email THEN <<i>> ELSE <<>>) \o matching(rows, i + 1, email)

User_search(d, email) ==
    IF d.down THEN Raised ELSE [tag |-> "list", val |-> matching(d.rows, 1, email)]

\* User.is_valid_password(pwd)
is_valid_password(d, u, pwd) == isinstance_str(pwd) /\ d.rows[u].password = pwd.val

\* Auth.authorization_header(request)
authorization_header(req) == IF req.tag = "req" THEN req.val[1] ELSE None

----------------------------------------------------------------------------
(* Requests given to current_user *)

Join(u, p) == u \o <<Colon>> \o p

HeaderStrings ==
    {BasicHeader(Join(u, p)) : u \in {EmailB, EmailA, EmailX, <<>>}, p \in {PwdS, PwdSW, PwdW, <<>>}}
    \cup {BasicHeader(EmailB \o PwdS),                                  \* no colon
          Str(<<98, 97, 115, 105, 99, 32>> \o BasicHeader(Join(EmailB, PwdS)).val),  \* "basic Basic ..."
          Str(<<98, 97, 115, 105, 99, 32, 89, 106, 112, 122>>),          \* "basic Yjpz"
          Str(<<66, 97, 115, 105, 99, 89, 106, 112, 122>>),              \* "BasicYjpz"
          Str(<<66, 97, 115, 105, 99, 32>>),                             \* "Basic "
          Str(<<66, 97, 115, 105, 99, 32, 81>>),                         \* "Basic Q"
          Str(<<66, 97, 115, 105, 99, 32, 47, 119, 61, 61>>),            \* "Basic /w=="
          Str(<<66, 97, 115, 105, 99, 32, 89, 106, 112, 122, 33>>),      \* "Basic Yjpz!"
          Str(<<>>)}

Requests == {None, Obj, Req(None), Req(Obj)} \cup {Req(h) : h \in HeaderStrings}

ConcRequests ==
    {Req(None), Req(BasicHeader(Join(EmailB, PwdS))),
     Req(BasicHeader(Join(EmailB, PwdW))),
     Req(Str(<<66, 97, 115, 105, 99, 32, 81>>))}
ConcStores == {d \in Stores : \A i \in 1..Len(d.rows) : d.rows[i].email = EmailB}

Calls == 1..NumCalls

----------------------------------------------------------------------------
(* current_user, one step per stage.  A call is idle until it is invoked,    *)
(* then runs the stages of lines 127-157 on its own locals.                  *)

Finish(c, v) ==
    /\ pc' = [pc EXCEPT ![c] = "done"]
    /\ result' = [result EXCEPT ![c] = v]
    /\ outcome' = [outcome EXCEPT ![c] = "returned"]

\* an exception no handler of the call catches reaches the caller
Propagate(c) ==
    /\ pc' = [pc EXCEPT ![c] = "done"]
    /\ outcome' = [outcome EXCEPT ![c] = "raised"]
    /\ UNCHANGED result

Continue(c, stage) ==
    /\ pc' = [pc EXCEPT ![c] = stage]
    /\ UNCHANGED <<result, outcome>>

Logged(c, stage) == log' = [log EXCEPT ![c] = Append(@, stage)]

Invoke(c, reqs) ==
    /\ pc[c] = "idle"
    /\ \E req \in reqs : request' = [request EXCEPT ![c] = req]
    /\ Continue(c, "entry")
    /\ UNCHANGED <<db, header, encoded, decoded, creds, users, idx, log, checks>>
    /\ UNCHANGED funVars

\* lines 127-133
ReadHeader(c) ==
    /\ pc[c] = "entry"
    /\ IF request[c] = None
       THEN /\ Finish(c, None)
            /\ UNCHANGED <<header, log>>
       ELSE /\ header' = [header EXCEPT ![c] = authorization_header(request[c])]
            /\ Logged(c, "header")
            /\ IF header'[c] = None THEN Finish(c, None) ELSE Continue(c, "extract")
    /\ UNCHANGED <<db, request, encoded, decoded, creds, users, idx, checks>>
    /\ UNCHANGED funVars

\* lines 135-140
Extract(c) ==
    /\ pc[c] = "extract"
    /\ encoded' = [encoded EXCEPT ![c] = extract_base64_authorization_header(header[c])]
    /\ Logged(c, "extract")
    /\ IF encoded'[c] = None THEN Finish(c, None) ELSE Continue(c, "decode")
    /\ UNCHANGED <<db, request, header, decoded, creds, users, idx, checks>>
    /\ UNCHANGED funVars

\* faulty variant: lines 146-147 (the return on None) left out
Decode_no_return(c) ==
    /\ pc[c] = "decode"
    /\ decoded' = [decoded EXCEPT ![c] = decode_base64_authorization_header(encoded[c])]
    /\ Logged(c, "decode")
    /\ Continue(c, "split")
    /\ UNCHANGED <<db, request, header, encoded, creds, users, idx, checks>>
    /\ UNCHANGED funVars

\* faulty variant: the decoded text kept on self, shared by every call
Decode_on_instance(c) ==
    /\ pc[c] = "decode"
    /\ decoded' = [d \in Calls |-> decode_base64_authorization_header(encoded[c])]
    /\ Logged(c, "decode")
    /\ IF decoded'[c] = None THEN Finish(c, None) ELSE Continue(c, "split")
    /\ UNCHANGED <<db, request, header, encoded, creds, users, idx, checks>>
    /\ UNCHANGED funVars

\* lines 142-147; current_user has no handler of its own, so an exception
\* leaving a stage would leave the call
Decode(c) ==
    /\ pc[c] = "decode"
    /\ decoded' = [decoded EXCEPT ![c] = decode_base64_authorization_header(encoded[c])]
    /\ Logged(c, "decode")
    /\ IF decoded'[c] = Raised THEN Propagate(c)
       ELSE IF decoded'[c] = None THEN Finish(c, None)
       ELSE Continue(c, "split")
    /\ UNCHANGED <<db, request, header, encoded, creds, users, idx, checks>>
    /\ UNCHANGED funVars

\* lines 149-154
Split(c) ==
    /\ pc[c] = "split"
    /\ creds' = [creds EXCEPT ![c] = extract_user_credentials(decoded[c])]
    /\ Logged(c, "split")
    /\ IF creds'[c][1] = None \/ creds'[c][2] = None
       THEN Finish(c, None)
       ELSE Continue(c, "resolve")
    /\ UNCHANGED <<db, request, header, encoded, decoded, users, idx, checks>>
    /\ UNCHANGED funVars

\* lines 106-109: the search and its handler
\* faulty variant: no handler, the store's exception leaves the method
try_User_search_propagates(d, user_email) ==
    LET r == User_search(d, user_email.val)
    IN  IF r = Raised THEN [exc |-> "propagated", users |-> <<>>]
        ELSE [exc |-> "none", users |-> r.val]

try_User_search(d, user_email) ==
    LET r == User_search(d, user_email.val)
    IN  IF r = Raised THEN [exc |-> "caught", users |-> <<>>]
        ELSE [exc |-> "none", users |-> r.val]

Reverse(q) == [i \in 1..Len(q) |-> q[Len(q) + 1 - i]]

\* faulty variant: the candidates walked in reverse order
Resolve_reversed(c) ==
    /\ pc[c] = "resolve"
    /\ IF \/ creds[c][1] = None
          \/ creds[c][2] = None
          \/ ~isinstance_str(creds[c][1])
          \/ ~isinstance_str(creds[c][2])
       THEN /\ Finish(c, None)
            /\ Logged(c, "resolve")
            /\ UNCHANGED <<users, idx>>
       ELSE LET t == try_User_search(db, creds[c][1])
            IN  /\ log' = [log EXCEPT ![c] = @ \o <<"resolve", "search">>]
                /\ IF t.exc = "caught"
                   THEN Finish(c, None) /\ UNCHANGED <<users, idx>>
                   ELSE /\ users' = [users EXCEPT ![c] = Reverse(t.users)]
                        /\ idx' = [idx EXCEPT ![c] = 1]
                        /\ Continue(c, "loop")
    /\ UNCHANGED <<db, request, header, encoded, decoded, creds, checks>>
    /\ UNCHANGED funVars

\* line 156 and lines 100-109: user_object_from_credentials up to its loop
Resolve(c) ==
    /\ pc[c] = "resolve"
    /\ IF \/ creds[c][1] = None
          \/ creds[c][2] = None
          \/ ~isinstance_str(creds[c][1])
          \/ ~isinstance_str(creds[c][2])
       THEN /\ Finish(c, None)
            /\ Logged(c, "resolve")
            /\ UNCHANGED <<users, idx>>
       ELSE LET t == try_User_search(db, creds[c][1])
            IN  /\ log' = [log EXCEPT ![c] = @ \o <<"resolve", "search">>]
                /\ IF t.exc = "propagated"
                   THEN Propagate(c) /\ UNCHANGED <<users, idx>>
                   ELSE IF t.exc = "caught"
                   THEN Finish(c, None) /\ UNCHANGED <<users, idx>>
                   ELSE /\ users' = [users EXCEPT ![c] = t.users]
                        /\ idx' = [idx EXCEPT ![c] = 1]
                        /\ Continue(c, "loop")
    /\ UNCHANGED <<db, request, header, encoded, decoded, creds, checks>>
    /\ UNCHANGED funVars

\* faulty variant: the first candidate returned without is_valid_password
Loop_no_check(c) ==
    /\ pc[c] = "loop"
    /\ IF idx[c] > Len(users[c])
       THEN Finish(c, None)
       ELSE Finish(c, UserObj(users[c][idx[c]]))
    /\ UNCHANGED <<db, request, header, encoded, decoded, creds, users, idx, log, checks>>
    /\ UNCHANGED funVars

\* lines 111-115: one turn of the for loop, or its end, then line 157
Loop(c) ==
    /\ pc[c] = "loop"
    /\ IF idx[c] > Len(users[c])
       THEN /\ Finish(c, None)
            /\ UNCHANGED <<idx, checks>>
       ELSE /\ checks' = [checks EXCEPT ![c] = Append(@, <<users[c][idx[c]], creds[c][2]>>)]
            /\ IF is_valid_password(db, users[c][idx[c]], creds[c][2])
               THEN /\ Finish(c, UserObj(users[c][idx[c]]))
                    /\ UNCHANGED idx
               ELSE /\ idx' = [idx EXCEPT ![c] = @ + 1]
                    /\ Continue(c, "loop")
    /\ UNCHANGED <<db, request, header, encoded, decoded, creds, users, log>>
    /\ UNCHANGED funVars

Step(c) ==
    \/ ReadHeader(c)
    \/ Extract(c)
    \/ Decode(c)
    \/ Split(c)
    \/ Resolve(c)
    \/ Loop(c)

InitCalls ==
    /\ pc = [c \in Calls |-> "idle"]
    /\ request = [c \in Calls |-> None]
    /\ header = [c \in Calls |-> None]
    /\ encoded = [c \in Calls |-> None]
    /\ decoded = [c \in Calls |-> None]
    /\ creds = [c \in Calls |-> <<None, None>>]
    /\ users = [c \in Calls |-> <<>>]
    /\ idx = [c \in Calls |-> 0]
    /\ result = [c \in Calls |-> None]
    /\ outcome = [c \in Calls |-> "running"]
    /\ log = [c \in Calls |-> <<>>]
    /\ checks = [c \in Calls |-> <<>>]

InitFunIdle == fin = None /\ fout = None /\ fop = "none"

\* one call of current_user on any request, over any store
Init == db \in Stores /\ InitCalls /\ InitFunIdle
Next == Invoke(1, Requests) \/ Step(1)
Spec == Init /\ [][Next]_vars

\* several calls interleaved on one instance, over one store
InitConc == db \in ConcStores /\ InitCalls /\ InitFunIdle
NextConc == \E c \in Calls : Invoke(c, ConcRequests) \/ Step(c)
SpecConc == InitConc /\ [][NextConc]_vars

----------------------------------------------------------------------------
(* The stages as functions: one input drawn from a bounded set, one          *)
(* application.                                                              *)

EmptyStore == [rows |-> <<>>, down |-> FALSE]

SchemeWords ==
    {<<66, 97, 115, 105, 99, 32>>,          \* "Basic "
     <<66, 97, 115, 105, 99>>,              \* "Basic"
     <<98, 97, 115, 105, 99, 32>>,          \* "basic "
     <<66, 65, 83, 73, 67, 32>>,            \* "BASIC "
     <<32, 66, 97, 115, 105, 99, 32>>,      \* " Basic "
     <<66, 97, 115, 105, 99, 9>>,           \* "Basic" and a tab
     <<66, 97, 115, 105>>,                  \* "Basi"
     <<66, 101, 97, 114, 101, 114, 32>>,    \* "Bearer "
     <<>>}
TailChars == {32, 89, 66}                   \* ' ', 'Y', 'B'
ExtractInputs ==
    {None, Obj}
    \cup {Str(w \o t) : w \in SchemeWords, t \in SeqsUpTo(TailChars, MaxTailLen)}

TokenChars == {81, 119, 54, 107, 47, 61, 33, 233}    \* Q w 6 k / = ! e-acute
DecodeInputs == {None, Obj} \cup {Str(t) : t \in SeqsUpTo(TokenChars, MaxTokenLen)}

TextChars == {97, 58, 98}                   \* a : b
SplitInputs == {None, Obj} \cup {Str(t) : t \in SeqsUpTo(TextChars, MaxTextLen)}

CredChars == {97, 58, 233, 8364, 128512}    \* a : e-acute euro-sign emoji
RoundInputs ==
    {<<Str(u), Str(p)>> : u \in SeqsUpTo(CredChars, MaxCredLen),
                          p \in SeqsUpTo(CredChars, MaxCredLen)}

InitFun(inputs) ==
    /\ db = EmptyStore
    /\ InitCalls
    /\ fin \in inputs
    /\ fout = None
    /\ fop = "none"

Apply(name, out) ==
    /\ fop = "none"
    /\ fop' = name
    /\ fout' = out
    /\ UNCHANGED <<fin, db>>
    /\ UNCHANGED callVars

ApplyExtract == Apply("extract", extract_base64_authorization_header(fin))
SpecExtract == InitFun(ExtractInputs) /\ [][ApplyExtract]_vars

ApplyDecode == Apply("decode", decode_base64_authorization_header(fin))
SpecDecode == InitFun(DecodeInputs) /\ [][ApplyDecode]_vars

ApplySplit == Apply("split", extract_user_credentials(fin))
SpecSplit == InitFun(SplitInputs) /\ [][ApplySplit]_vars

\* stages 1 to 3 on the header a client builds from (username, password)
ApplyRound ==
    Apply("round",
          extract_user_credentials(
              decode_base64_authorization_header(
                  extract_base64_authorization_header(
                      BasicHeader(Join(fin[1].val, fin[2].val))))))
SpecRound == InitFun(RoundInputs) /\ [][ApplyRound]_vars

----------------------------------------------------------------------------
(* What a request carries, read off the request alone *)

HeaderOf(req) == authorization_header(req)
TokenOf(req) == extract_base64_authorization_header(HeaderOf(req))
TextOf(req) == decode_base64_authorization_header(TokenOf(req))
CredsOf(req) == extract_user_credentials(TextOf(req))
HasCreds(req) == req # None /\ CredsOf(req)[1] # None /\ CredsOf(req)[2] # None

Range(q) == {q[i] : i \in 1..Len(q)}
Has(q, x) == x \in Range(q)
Count(q, x) == Cardinality({i \in 1..Len(q) : q[i] = x})
IsPrefix(q, r) == Len(q) <= Len(r) /\ SubSeq(r, 1, Len(q)) = q
Returned(c) == pc[c] = "done" /\ outcome[c] = "returned"

\* the candidates the store's search gives for the request's username, in its order
Candidates(d, req) == User_search(d, CredsOf(req)[1].val).val
Accepting(d, req) ==
    {i \in 1..Len(Candidates(d, req)) :
        is_valid_password(d, Candidates(d, req)[i], CredsOf(req)[2])}
Least(S) == CHOOSE i \in S : \A j \in S : i <= j

----------------------------------------------------------------------------
(* C1: a principal current_user returns is one of the candidates the store's *)
(* search returned for the header's username, its is_valid_password was      *)
(* called with the header's password and returned true; when no candidate    *)
(* accepts that password the result is None.                                 *)
C1_PrincipalOnlyAfterPasswordCheck ==
    \A c \in Calls :
        Returned(c) =>
            /\ result[c] # None =>
                   /\ result[c].tag = "user"
                   /\ HasCreds(request[c])
                   /\ ~db.down
                   /\ Has(Candidates(db, request[c]), result[c].val[1])
                   /\ Has(checks[c], <<result[c].val[1], CredsOf(request[c])[2]>>)
                   /\ is_valid_password(db, result[c].val[1], CredsOf(request[c])[2])
            /\ (HasCreds(request[c]) /\ ~db.down /\ Accepting(db, request[c]) = {})
                   => result[c] = None

\* a principal returned after an earlier candidate rejected the password
C1_Witness ==
    /\ Returned(1)
    /\ result[1].tag = "user"
    /\ Len(checks[1]) = 2
    /\ CredsOf(request[1])[2] = Str(PwdSW)

(* C2: current_user never raises: for every request (None, of a wrong type,  *)
(* header absent, header no string, header malformed at any stage) and every *)
(* store behaviour, a call that has started can always take its next step    *)
(* and ends by returning a principal or None.                                *)
C2_NeverRaises ==
    \A c \in Calls :
        /\ outcome[c] # "raised"
        /\ pc[c] \notin {"idle", "done"} => ENABLED Step(c)
        /\ pc[c] = "done" =>
               /\ outcome[c] = "returned"
               /\ result[c] = None \/ result[c].tag = "user"

\* a token b64decode raises on, and the call returned None
C2_Witness ==
    /\ Returned(1)
    /\ result[1] = None
    /\ encoded[1] # None
    /\ b64decode(encoded[1].val) = Raised
    /\ log[1] = <<"header", "extract", "decode">>

(* C3: user_object_from_credentials walks the candidates in the order the    *)
(* store's search returned them and returns the first one whose password     *)
(* check accepts; no earlier candidate accepts; with no accepting candidate  *)
(* (an empty result included) it returns None.                               *)
C3_FirstAcceptingCandidate ==
    \A c \in Calls :
        (Returned(c) /\ Has(log[c], "search") /\ ~db.down) =>
            LET cand == Candidates(db, request[c])
                pwd == CredsOf(request[c])[2]
                acc == Accepting(db, request[c])
                upto == IF acc = {} THEN Len(cand) ELSE Least(acc)
            IN  /\ checks[c] = [i \in 1..upto |-> <<cand[i], pwd>>]
                /\ IF acc = {} THEN result[c] = None
                   ELSE /\ result[c] = UserObj(cand[Least(acc)])
                        /\ \A j \in 1..(Least(acc) - 1) :
                               ~is_valid_password(db, cand[j], pwd)

\* two candidates accept the password and the first in store order is returned
C3_Witness ==
    /\ Returned(1)
    /\ Has(log[1], "search")
    /\ ~db.down
    /\ Len(Candidates(db, request[1])) = 2
    /\ Accepting(db, request[1]) = {1, 2}
    /\ result[1] = UserObj(Candidates(db, request[1])[1])

(* C4: when the store's search raises, user_object_from_credentials returns  *)
(* None: the error is not propagated, no password check is made, the search  *)
(* is not made again, and current_user returns None as for zero candidates.  *)
C4_SearchFailureIsNone ==
    \A c \in Calls :
        (db.down /\ Has(log[c], "search")) =>
            /\ Returned(c)
            /\ result[c] = None
            /\ checks[c] = <<>>
            /\ Count(log[c], "search") = 1

\* the search was made on a store that is down
C4_Witness ==
    /\ db.down
    /\ Has(log[1], "search")
    /\ Returned(1)
    /\ Len(db.rows) > 0

\* the stages a call on this request runs, in order
StagesOf(req) ==
    IF req = None THEN <<>>
    ELSE IF HeaderOf(req) = None THEN <<"header">>
    ELSE IF TokenOf(req) = None THEN <<"header", "extract">>
    ELSE IF TextOf(req) = None THEN <<"header", "extract", "decode">>
    ELSE IF CredsOf(req)[1] = None \/ CredsOf(req)[2] = None
    THEN <<"header", "extract", "decode", "split">>
    ELSE <<"header", "extract", "decode", "split", "resolve", "search">>

(* C5: the stages of a call run in the order header-read, extract, decode,   *)
(* split, resolve; the first stage that yields None ends the call with None  *)
(* and no later stage runs; the search is made at most once, only after      *)
(* extract, decode and split succeeded, and no password check precedes it.   *)
C5_StagesInOrderShortCircuit ==
    \A c \in Calls :
        /\ pc[c] # "idle" => IsPrefix(log[c], StagesOf(request[c]))
        /\ pc[c] = "done" => log[c] = StagesOf(request[c])
        /\ (pc[c] = "done" /\ ~Has(log[c], "search")) =>
               (result[c] = None /\ outcome[c] = "returned")
        /\ Count(log[c], "search") <= 1
        /\ checks[c] # <<>> => Has(log[c], "search")
        /\ Has(log[c], "search") =>
               /\ encoded[c] # None
               /\ decoded[c] # None
               /\ creds[c][1] # None
               /\ creds[c][2] # None

\* a token that does not decode: the call ended after the decode stage
C5_Witness ==
    /\ pc[1] = "done"
    /\ TokenOf(request[1]) # None
    /\ TextOf(request[1]) = None
    /\ log[1] = <<"header", "extract", "decode">>
    /\ result[1] = None

----------------------------------------------------------------------------
HasColon(t) == \E i \in 1..Len(t) : t[i] = Colon

(* C6: round trip: for a username and a password without a colon, stages 1   *)
(* to 3 on "Basic " + base64(username + ":" + password) give exactly         *)
(* (username, password), no stage returning None.                            *)
C6_RoundTrip ==
    (fop = "round" /\ ~HasColon(fin[1].val) /\ ~HasColon(fin[2].val)) =>
        /\ fout = <<fin[1], fin[2]>>
        /\ fout[1] # None
        /\ fout[2] # None

\* a pair with characters of two, three and four UTF-8 bytes has made the trip
C6_Witness ==
    /\ fop = "round"
    /\ fin = <<Str(<<233, 8364>>), Str(<<128512, 97>>)>>
    /\ fout = fin

(* C7: extract_user_credentials splits on the first colon only: a text with  *)
(* a colon gives (u, p), both strings (possibly empty), u without a colon    *)
(* and u + ":" + p the text; a text without a colon, None and a non-string   *)
(* give (None, None).                                                        *)
C7_SplitOnFirstColon ==
    fop = "split" =>
        IF isinstance_str(fin) /\ HasColon(fin.val)
        THEN /\ isinstance_str(fout[1])
             /\ isinstance_str(fout[2])
             /\ ~HasColon(fout[1].val)
             /\ fout[1].val \o <<Colon>> \o fout[2].val = fin.val
        ELSE fout = <<None, None>>

\* "a:b:" is split into "a" and "b:"
C7_Witness ==
    /\ fop = "split"
    /\ fin = Str(<<97, 58, 98, 58>>)
    /\ fout = <<Str(<<97>>), Str(<<98, 58>>)>>

(* C8: extract_base64_authorization_header returns None for None, for a      *)
(* non-string and for a string that does not start with the exact 6          *)
(* characters "Basic "; for a string that does, it returns what follows      *)
(* them, which may be empty.                                                 *)
C8_ExtractNeedsExactPrefix ==
    fop = "extract" =>
        IF /\ isinstance_str(fin)
           /\ Len(fin.val) >= 6
           /\ fin.val[1] = 66
           /\ fin.val[2] = 97
           /\ fin.val[3] = 115
           /\ fin.val[4] = 105
           /\ fin.val[5] = 99
           /\ fin.val[6] = 32
        THEN /\ isinstance_str(fout)
             /\ <<66, 97, 115, 105, 99, 32>> \o fout.val = fin.val
        ELSE fout = None

\* "Basic" followed by " Y" is a header with the prefix, and gives "Y"
C8_Witness ==
    /\ fop = "extract"
    /\ fin = Str(<<66, 97, 115, 105, 99, 32, 89>>)
    /\ fout = Str(<<89>>)

\* base64 as RFC 4648 writes it: quads of alphabet characters, '=' only as the
\* last or the last two characters
StrictB64(t) ==
    /\ Len(t) % 4 = 0
    /\ \A i \in 1..Len(t) :
           \/ B64Val(t[i]) >= 0
           \/ /\ t[i] = Pad
              /\ i >= Len(t) - 1
              /\ t[Len(t)] = Pad

(* C9: decode_base64_authorization_header returns None for every token that  *)
(* is not a valid base64 encoding of UTF-8 text (a character outside the     *)
(* alphabet, wrong padding, bytes that are not UTF-8); only a valid token    *)
(* gives the decoded text.                                                   *)
C9_InvalidTokenIsNone ==
    (fop = "decode" /\ isinstance_str(fin) /\ ~StrictB64(fin.val)) => fout = None

\* the result of a call running alone on its request over store d
AloneResult(d, req) ==
    IF ~HasCreds(req) THEN None
    ELSE IF d.down THEN None
    ELSE IF Accepting(d, req) = {} THEN None
    ELSE UserObj(Candidates(d, req)[Least(Accepting(d, req))])

C10_Results ==
    /\ \A c \in Calls :
           pc[c] = "done" =>
               (outcome[c] = "returned" /\ result[c] = AloneResult(db, request[c]))
    /\ \A c, d \in Calls :
           (pc[c] = "done" /\ pc[d] = "done" /\ request[c] = request[d])
               => result[c] = result[d]

LocalsOf(c) ==
    <<pc[c], request[c], header[c], encoded[c], decoded[c], creds[c], users[c],
      idx[c], result[c], outcome[c], log[c], checks[c]>>

C10_NoSharedWrite ==
    /\ db' = db
    /\ \A c \in Calls : pc[c] # "idle" => request'[c] = request[c]
    /\ \E c \in Calls : \A d \in Calls \ {c} : LocalsOf(d)' = LocalsOf(d)

(* C10: calls of current_user interleaved on one instance over a read-only   *)
(* store each return what they would return alone on their own request; no   *)
(* step changes the store, a started call's request or another call's        *)
(* locals; calls with the same request return the same result.               *)
C10_CallsIndependent == [](C10_Results) /\ [][C10_NoSharedWrite]_vars

\* call 1 has returned a principal while call 2, on another header, is between
\* its decode and split stages
C10_Witness ==
    /\ pc[1] = "done"
    /\ result[1].tag = "user"
    /\ pc[2] = "split"
    /\ decoded[2] # decoded[1]

============================================================================
